---- MODULE Spec2Model ----
(***************************************************************************)
(* A model of cmds/cpu/cpu.go, the client of the cpu remote-execution      *)
(* tool: the session lifecycle (main, runClient, shell, env,               *)
(* generateNonce), the input relay (stdin), the two output relays          *)
(* (io.Copy) and the tunnel-serving task (srv).                            *)
(*                                                                         *)
(* Strings are sequences of one-character strings, so that splitting,      *)
(* formatting and substring tests are computed as the code computes them.  *)
(***************************************************************************)
EXTENDS Integers, Sequences, FiniteSets, TLC

VARIABLES
    \* ---- the process's inputs
    args,        \* flag.Args()
    environ,     \* os.Environ(), a sequence of "KEY=value" strings
    debug,       \* *debug: v is log.Printf
    \* ---- the command being built
    bin,         \* *bin
    a,           \* main's a, the command to run remotely
    cmd,         \* runClient's cmd
    envs,        \* runClient's env, the extra entries handed to shell
    \* ---- the reverse tunnel
    wantNameSpace,
    listenRequested,  \* cl.Listen was called
    listenerAddr,     \* l.Addr().String() of the granted listener
    port9p,           \* runClient's port9p
    randB,            \* generateNonce's b, the random bytes read
    nonce,            \* runClient's nonce
    srvStarted,       \* go srv(...) ran
    srvPc,            \* the tunnel-serving task: "idle" | "accept" | "serving" | "abandoned"
    \* ---- the local terminal
    termMode,    \* "orig" | "raw"
    mainT,       \* main's t, the result of GetTermios
    shellR,      \* shell's r, the result of Raw
    rawEntered,  \* t.Raw() succeeded
    restoreFailed,  \* a call restoring the terminal mode returned an error
    restores,    \* calls made to restore the terminal mode
    \* ---- the remote exec session
    session,     \* "none" | "open" | "closed"
    envQueue,    \* env(): the entries not yet handed to Setenv
    remoteEnv,   \* the <<name, value>> pairs Setenv accepted
    ptyRequested,
    startedCmd,  \* the string given to session.Start, <<>> before
    started,     \* session.Start succeeded
    \* ---- control
    pc,          \* position of the main goroutine
    defers,      \* shell's deferred calls, last one first to run
    err,         \* the error runClient returns
    exitDeferred,  \* main's deferred os.Exit(e): e, or -1 when none
    exitStatus,  \* the process's exit status, -1 while it runs
    log,         \* what log.Printf, log.Print, log.Fatal and v wrote
    \* ---- input relay: stdin(s, w, r)
    input,       \* the bytes the reader r will deliver, in order
    pos,         \* number of bytes of input read so far
    b,           \* b[0], the byte read by the current iteration
    out,         \* the bytes written to w (remote stdin), in order
    newLine,     \* local variable newLine
    tilde,       \* local variable tilde
    relayPc,     \* "idle" | "read" | "switch" | "done"
    stop,        \* why the relay returned: "none" | "eof" | "readerr" | "writeerr" | "escape"
    sessClosed,  \* s.Close() was called by the relay
    wrote,       \* wrote[i]: number of bytes written to w while handling input[i]
    \* ---- output relays: io.Copy(os.Stdout, o) and io.Copy(os.Stderr, e)
    stdoutPc,    \* "idle" | "copy" | "done"
    stderrPc     \* "idle" | "copy" | "done"

inVars == <<args, environ, debug>>
cmdVars == <<bin, a, cmd, envs>>
tunVars == <<wantNameSpace, listenRequested, listenerAddr, port9p, randB, nonce,
            srvStarted, srvPc>>
termVars == <<termMode, mainT, shellR, rawEntered, restoreFailed, restores>>
sesVars == <<session, envQueue, remoteEnv, ptyRequested, startedCmd, started>>
ctlVars == <<pc, defers, err, exitDeferred, exitStatus>>
lifeVars == <<inVars, cmdVars, tunVars, termVars, sesVars, ctlVars, log>>
relayVars == <<input, pos, b, out, newLine, tilde, relayPc, stop, sessClosed, wrote,
              stdoutPc, stderrPc>>
vars == <<lifeVars, relayVars>>

----------------------------------------------------------------------------
\* Bounds

\* longest input fed to the input relay
MaxInput == 5

\* largest exit status the remote command reports
MaxStatus == 2

----------------------------------------------------------------------------
\* Bytes and strings

NL == "\n"
CR == "\r"
TildeByte == "~"
DotByte == "."
NUL == "NUL"

\* the bytes the relay is fed: the four bytes the switch names, and two others
RelayBytes == {"a", "b", NL, CR, TildeByte, DotByte}

IsNewline(c) == c \in {NL, CR}

RECURSIVE SeqsUpTo(_, _)
SeqsUpTo(S, n) ==
    IF n = 0 THEN {<<>>}
    ELSE LET shorter == SeqsUpTo(S, n - 1)
         IN  shorter \cup {Append(s, c) : s \in {t \in shorter : Len(t) = n - 1}, c \in S}

\* strings.Contains(s, sub)
Contains(s, sub) ==
    \E i \in 0..(Len(s) - Len(sub)) : SubSeq(s, i + 1, i + Len(sub)) = sub

\* index of the first sep in s, 0 when there is none
IndexOf(s, sep) ==
    IF \E i \in 1..Len(s) : s[i] = sep
    THEN CHOOSE i \in 1..Len(s) : s[i] = sep /\ \A j \in 1..(i - 1) : s[j] # sep
    ELSE 0

\* strings.Split(s, sep) for a one-byte sep
RECURSIVE Split(_, _)
Split(s, sep) ==
    LET i == IndexOf(s, sep)
    IN  IF i = 0 THEN <<s>>
        ELSE <<SubSeq(s, 1, i - 1)>> \o Split(SubSeq(s, i + 1, Len(s)), sep)

\* strings.SplitN(s, sep, 2)
SplitN2(s, sep) ==
    LET i == IndexOf(s, sep)
    IN  IF i = 0 THEN <<s>>
        ELSE <<SubSeq(s, 1, i - 1), SubSeq(s, i + 1, Len(s))>>

\* strings.Join(ss, " ")
RECURSIVE JoinSpace(_)
JoinSpace(ss) ==
    IF Len(ss) = 0 THEN <<>>
    ELSE IF Len(ss) = 1 THEN ss[1]
    ELSE ss[1] \o <<" ">> \o JoinSpace(Tail(ss))

\* the %q verb: the string in double quotes, quotes and backslashes escaped
RECURSIVE EscapeQ(_)
EscapeQ(s) ==
    IF Len(s) = 0 THEN <<>>
    ELSE (IF Head(s) \in {"\"", "\\"} THEN <<"\\", Head(s)>> ELSE <<Head(s)>>)
         \o EscapeQ(Tail(s))

Quote(s) == <<"\"">> \o EscapeQ(s) \o <<"\"">>

\* os.LookupEnv(key) over environ: <<value, ok>>
LookupEnv(env, key) ==
    LET hits == {i \in 1..Len(env) : SplitN2(env[i], "=")[1] = key}
    IN  IF hits = {} THEN <<<<>>, FALSE>>
        ELSE LET i == CHOOSE i \in hits : \A j \in hits : i <= j
                 kv == SplitN2(env[i], "=")
             IN  <<IF Len(kv) = 2 THEN kv[2] ELSE <<>>, TRUE>>

\* os.Getenv(key)
Getenv(env, key) == LookupEnv(env, key)[1]

S_cpud == <<"c", "p", "u", "d">>
S_cpuPath == <<"/", "b", "i", "n", "/", "c", "p", "u">>
S_SHELL == <<"S", "H", "E", "L", "L">>
S_binbash == <<"/", "b", "i", "n", "/", "b", "a", "s", "h">>
S_CPU_NAMESPACE == <<"C", "P", "U", "_", "N", "A", "M", "E", "S", "P", "A", "C", "E">>
S_CPUNONCE == <<"C", "P", "U", "N", "O", "N", "C", "E">>
S_remoteBin == <<" ", "-", "r", "e", "m", "o", "t", "e", " ", "-", "b", "i", "n", " ">>
S_port9p == <<" ", "-", "p", "o", "r", "t", "9", "p", " ">>
S_host == <<"h">>
S_ls == <<"l", "s">>
S_dashL == <<"-", "l">>

\* the command lines the process is started with (flag.Args())
ArgLists == {<<>>, <<S_host>>, <<S_host, S_ls, S_dashL>>}

\* the environments the process is started in
Environs ==
    { <<S_SHELL \o <<"=">> \o S_binbash>>,
      <<S_SHELL \o <<"=">> \o S_binbash, S_CPU_NAMESPACE \o <<"=">>>>,
      <<S_CPU_NAMESPACE \o <<"=", "1">>>> }

\* the values of the -bin flag: its default, and empty
BinFlags == {S_cpud, <<>>}

\* the invocations of the program: cpu; cpu h; cpu -d h ls -l; cpu -bin "" h
Invocations ==
    {inv \in [args : ArgLists, debug : BOOLEAN, bin : BinFlags] :
        /\ inv.debug = (Len(inv.args) > 1)
        /\ (inv.bin = <<>>) => (Len(inv.args) = 1)}

\* l.Addr().String() of the listener a transport may grant
ListenerAddrs ==
    { <<"[", ":", ":", "1", "]", ":", "4", "2">>,
      <<"n", "o", "p", "o", "r", "t">> }

----------------------------------------------------------------------------
\* generateNonce

\* len(nonce{}): type nonce [32]byte
NonceLen == 32

HexDigits == <<"0", "1", "2", "3", "4", "5", "6", "7", "8", "9", "a", "b", "c", "d", "e", "f">>

\* one byte under %x with no zero padding
HexByteNoPad(x) ==
    IF x < 16 THEN <<HexDigits[x + 1]>>
    ELSE <<HexDigits[(x \div 16) + 1], HexDigits[(x % 16) + 1]>>

\* one byte of a byte array under the %x verb: two lowercase digits
HexByte(x) == <<HexDigits[(x \div 16) + 1], HexDigits[(x % 16) + 1]>>

\* fmt.Sprintf("%02x", b) for a byte array b
RECURSIVE Sprintf02x(_)
Sprintf02x(bs) ==
    IF Len(bs) = 0 THEN <<>> ELSE HexByte(Head(bs)) \o Sprintf02x(Tail(bs))

\* nonce{}
ZeroNonce == [i \in 1..NonceLen |-> NUL]

\* copy(n[:], s) into a zeroed nonce
CopyToNonce(s) == [i \in 1..NonceLen |-> IF i <= Len(s) THEN s[i] ELSE NUL]

\* the 16 bytes a read of the random source may deliver
RandBytes(seed, step) == [i \in 1..(NonceLen \div 2) |-> (seed + (i - 1) * step) % 256]

RandSources == {RandBytes(9, 17)}

\* rand.Read(b[:]): the bytes, or an error
RandReads ==
    {[failed |-> FALSE, bytes |-> bs] : bs \in RandSources}
        \cup {[failed |-> TRUE, bytes |-> RandBytes(0, 0)]}

\* generateNonce(), given what rand.Read did
GenerateNonce(rd) ==
    IF rd.failed THEN [n |-> ZeroNonce, failed |-> TRUE]
    ELSE [n |-> CopyToNonce(Sprintf02x(rd.bytes)), failed |-> FALSE]

\* nonce.String()
NonceString(n) == n

----------------------------------------------------------------------------
\* Errors and log entries

ErrNil == [kind |-> "nil", status |-> 0, what |-> "", text |-> <<>>]

\* *ssh.ExitError with exit status n
ExitError(n) == [kind |-> "ExitError", status |-> n, what |-> "exit", text |-> <<>>]

\* any other error; text is the string formatted into its message
OtherError(what, text) == [kind |-> "error", status |-> 0, what |-> what, text |-> text]

LogEntry(what, fmtArgs) == [what |-> what, args |-> fmtArgs]

\* v(...): log.Printf when -d is given, nothing otherwise
V(entry) == IF debug THEN Append(log, entry) ELSE log

\* log.Fatal / log.Fatalf: print, then os.Exit(1); deferred calls do not run
Fatal(entry) ==
    /\ log' = Append(log, entry)
    /\ pc' = "exited"
    /\ exitStatus' = 1
    /\ UNCHANGED <<defers, err, exitDeferred>>

\* return e from shell or runClient: the deferred calls run next
Return(e) ==
    /\ err' = e
    /\ pc' = "unwind"
    /\ UNCHANGED <<defers, exitDeferred, exitStatus>>

Goto(label) ==
    /\ pc' = label
    /\ UNCHANGED <<defers, err, exitDeferred, exitStatus>>

----------------------------------------------------------------------------
\* main, up to the call of runClient

\* args := flag.Args() ... a = os.Getenv("SHELL")
MainArgs ==
    /\ pc = "main_args"
    /\ IF Len(args) = 0
       THEN /\ Fatal(LogEntry("Usage", <<>>))
            /\ UNCHANGED a
       ELSE /\ LET joined == JoinSpace(Tail(args))
               IN  a' = IF joined = <<>> THEN Getenv(environ, S_SHELL) ELSE joined
            /\ log' = V(LogEntry("Running as client", <<>>))
            /\ Goto("main_getTermios")
    /\ UNCHANGED <<inVars, bin, cmd, envs, tunVars, termVars, sesVars, relayVars>>

\* t, err := termios.GetTermios(0)
MainGetTermios ==
    /\ pc = "main_getTermios"
    /\ \E ok \in BOOLEAN :
         IF ok
         THEN /\ mainT' = termMode
              /\ Goto("config")
              /\ UNCHANGED log
         ELSE /\ Fatal(LogEntry("Getting Termios", <<>>))
              /\ UNCHANGED mainT
    /\ UNCHANGED <<inVars, cmdVars, tunVars, termMode, shellR, rawEntered, restoreFailed,
                   restores, sesVars, relayVars>>

----------------------------------------------------------------------------
\* runClient

\* c, err := config(*keyFile)
Config ==
    /\ pc = "config"
    /\ \E ok \in BOOLEAN :
         IF ok THEN Goto("dial") ELSE Return(OtherError("config", <<>>))
    /\ UNCHANGED <<inVars, cmdVars, tunVars, termVars, sesVars, log, relayVars>>

\* cl, err := dial(...)
Dial ==
    /\ pc = "dial"
    /\ \E ok \in BOOLEAN :
         IF ok THEN Goto("namespace") ELSE Return(OtherError("Failed to dial", <<>>))
    /\ UNCHANGED <<inVars, cmdVars, tunVars, termVars, sesVars, log, relayVars>>

\* a namespace is wanted whatever CPU_NAMESPACE holds
WantNameSpaceAlways(env) == TRUE

\* wantNameSpace: false only when CPU_NAMESPACE is present and empty
WantNameSpace(env) ==
    LET l == LookupEnv(env, S_CPU_NAMESPACE)
    IN  ~(l[2] /\ Len(l[1]) = 0)

\* fmt.Sprintf("%v -remote -bin %v", *bin, *bin)
BaseCmd(bn) == bn \o S_remoteBin \o bn

\* wantNameSpace := ... ; cmd := fmt.Sprintf(...)
Namespace ==
    /\ pc = "namespace"
    /\ wantNameSpace' = WantNameSpace(environ)
    /\ cmd' = BaseCmd(bin)
    /\ Goto(IF WantNameSpace(environ) THEN "parseDuration" ELSE "quote")
    /\ UNCHANGED <<inVars, bin, a, envs, listenRequested, listenerAddr, port9p, randB,
                   nonce, srvStarted, srvPc, termVars, sesVars, log, relayVars>>

\* deadline, err := time.ParseDuration(*timeout9P)
ParseDuration ==
    /\ pc = "parseDuration"
    /\ \E ok \in BOOLEAN :
         IF ok THEN Goto("listen") ELSE Return(OtherError("ParseDuration", <<>>))
    /\ UNCHANGED <<inVars, cmdVars, tunVars, termVars, sesVars, log, relayVars>>

\* cl.Listen whose failure is recorded while runClient goes on without a listener
ListenMutFallback ==
    /\ pc = "listen"
    /\ listenRequested' = TRUE
    /\ \/ \E addr \in ListenerAddrs :
            /\ listenerAddr' = addr
            /\ Goto("port")
       \/ /\ err' = OtherError("First cl.Listen", <<>>)
          /\ pc' = "nonce"
          /\ UNCHANGED <<listenerAddr, defers, exitDeferred, exitStatus>>
    /\ UNCHANGED <<inVars, cmdVars, wantNameSpace, port9p, randB, nonce, srvStarted,
                   srvPc, termVars, sesVars, log, relayVars>>

\* l, err := cl.Listen("tcp", "127.0.0.1:0")
Listen ==
    /\ pc = "listen"
    /\ listenRequested' = TRUE
    /\ \/ \E addr \in ListenerAddrs :
            /\ listenerAddr' = addr
            /\ Goto("port")
       \/ /\ Return(OtherError("First cl.Listen", <<>>))
          /\ UNCHANGED listenerAddr
    /\ UNCHANGED <<inVars, cmdVars, wantNameSpace, port9p, randB, nonce, srvStarted,
                   srvPc, termVars, sesVars, log, relayVars>>

\* ap[len(ap)-1]
LastOf(ap) == ap[Len(ap)]

\* ap := strings.Split(...) ... v("listener ...")
Port ==
    /\ pc = "port"
    /\ LET ap == Split(listenerAddr, ":")
       IN  IF Len(ap) = 0
           THEN /\ Return(OtherError("Can't find a port number in", listenerAddr))
                /\ UNCHANGED <<port9p, log>>
           ELSE /\ port9p' = LastOf(ap)
                \* the last argument is the flag variable port, a *string
                /\ log' = V(LogEntry("listener", <<listenerAddr, <<"0", "x">>>>))
                /\ Goto("nonce")
    /\ UNCHANGED <<inVars, cmdVars, wantNameSpace, listenRequested, listenerAddr, randB,
                   nonce, srvStarted, srvPc, termVars, sesVars, relayVars>>

\* nonce, err := generateNonce()
Nonce ==
    /\ pc = "nonce"
    /\ \E rd \in RandReads :
         LET g == GenerateNonce(rd)
         IN  IF g.failed
             THEN /\ Fatal(LogEntry("Getting nonce", <<>>))
                  /\ UNCHANGED <<nonce, randB>>
             ELSE /\ nonce' = g.n
                  /\ randB' = rd.bytes
                  /\ Goto("srv")
                  /\ UNCHANGED log
    /\ UNCHANGED <<inVars, cmdVars, wantNameSpace, listenRequested, listenerAddr, port9p,
                   srvStarted, srvPc, termVars, sesVars, relayVars>>

\* fmt.Sprintf("%s -port9p %v", cmd, port9p)
WithPort(c, p) == c \o S_port9p \o p

\* "CPUNONCE=" + nonce.String()
NonceEnv(n) == S_CPUNONCE \o <<"=">> \o NonceString(n)

\* go srv(l, *root, nonce, deadline) ... env = append(env, ...)
Srv ==
    /\ pc = "srv"
    /\ srvStarted' = TRUE
    /\ srvPc' = "accept"
    /\ cmd' = WithPort(cmd, port9p)
    /\ envs' = Append(envs, NonceEnv(nonce))
    /\ Goto("quote")
    /\ UNCHANGED <<inVars, bin, a, wantNameSpace, listenRequested, listenerAddr, port9p,
                   nonce, randB, termVars, sesVars, log, relayVars>>

\* fmt.Sprintf("%s %q", cmd, a)
WithCommand(c, arg) == c \o <<" ">> \o Quote(arg)

\* cmd = fmt.Sprintf("%s %q", cmd, a), then the call of shell
QuoteCmd ==
    /\ pc = "quote"
    /\ cmd' = WithCommand(cmd, a)
    /\ Goto("termiosNew")
    /\ UNCHANGED <<inVars, bin, a, envs, tunVars, termVars, sesVars, log, relayVars>>

----------------------------------------------------------------------------
\* shell

\* t, err := termios.New()
TermiosNew ==
    /\ pc = "termiosNew"
    /\ \E ok \in BOOLEAN :
         IF ok THEN Goto("raw") ELSE Return(OtherError("termios.New", <<>>))
    /\ UNCHANGED <<inVars, cmdVars, tunVars, termVars, sesVars, log, relayVars>>

\* t.Raw() with t.Set(r) called at once instead of deferred
RawMutSetNotDeferred ==
    /\ pc = "raw"
    /\ \E ok \in BOOLEAN :
         IF ok
         THEN /\ shellR' = termMode
              /\ termMode' = termMode
              /\ rawEntered' = TRUE
              /\ restores' = restores + 1
              /\ pc' = "lookPath"
              /\ UNCHANGED <<defers, err, exitDeferred, exitStatus>>
         ELSE /\ Return(OtherError("t.Raw", <<>>))
              /\ UNCHANGED <<shellR, termMode, rawEntered, restores>>
    /\ UNCHANGED <<inVars, cmdVars, tunVars, mainT, restoreFailed, sesVars, log,
                   relayVars>>

\* r, err := t.Raw() ... defer t.Set(r)
Raw ==
    /\ pc = "raw"
    /\ \E ok \in BOOLEAN :
         IF ok
         THEN /\ shellR' = termMode
              /\ termMode' = "raw"
              /\ rawEntered' = TRUE
              /\ defers' = Append(defers, "t.Set")
              /\ pc' = "lookPath"
              /\ UNCHANGED <<err, exitDeferred, exitStatus>>
         ELSE /\ Return(OtherError("t.Raw", <<>>))
              /\ UNCHANGED <<shellR, termMode, rawEntered>>
    /\ UNCHANGED <<inVars, cmdVars, tunVars, mainT, restoreFailed, restores, sesVars, log,
                   relayVars>>

\* if *bin == "" { *bin, err = exec.LookPath("cpu") } ... v("command is %q", cmd)
LookPath ==
    /\ pc = "lookPath"
    /\ \E ok \in BOOLEAN :
         IF bin = <<>> /\ ~ok
         THEN /\ Return(OtherError("LookPath", <<>>))
              /\ UNCHANGED <<bin, log>>
         ELSE /\ bin' = IF bin = <<>> THEN S_cpuPath ELSE bin
              /\ log' = V(LogEntry("command is", <<Quote(cmd)>>))
              /\ Goto("newSession")
    /\ UNCHANGED <<inVars, a, cmd, envs, tunVars, termVars, sesVars, relayVars>>

\* session, err := client.NewSession() ... defer session.Close(); env(session, envs...)
NewSession ==
    /\ pc = "newSession"
    /\ \E ok \in BOOLEAN :
         IF ok
         THEN /\ session' = "open"
              /\ defers' = Append(defers, "session.Close")
              \* env: range append(os.Environ(), envs...)
              /\ envQueue' = environ \o envs
              /\ pc' = "env"
              /\ UNCHANGED <<err, exitDeferred, exitStatus>>
         ELSE /\ Return(OtherError("NewSession", <<>>))
              /\ UNCHANGED <<session, envQueue>>
    /\ UNCHANGED <<inVars, cmdVars, tunVars, termVars, remoteEnv, ptyRequested, startedCmd,
                   started, log, relayVars>>

\* env := strings.SplitN(v, "=", 2); if len(env) == 1 { env = append(env, "") }
EnvPair(v) ==
    LET kv == SplitN2(v, "=")
    IN  IF Len(kv) = 1 THEN Append(kv, <<>>) ELSE kv

\* the arguments of log.Printf("Warning: s.Setenv(%q, %q): %v", v, os.Getenv(v), err)
SetenvWarning(v) == LogEntry("Warning: s.Setenv", <<Quote(v), Quote(Getenv(environ, v))>>)

\* env's loop left at the first Setenv that fails
EnvSetMutStopsAtFailure ==
    /\ pc = "env"
    /\ envQueue # <<>>
    /\ LET v == Head(envQueue)
       IN  \E ok \in BOOLEAN :
             IF ok
             THEN /\ remoteEnv' = Append(remoteEnv, EnvPair(v))
                  /\ envQueue' = Tail(envQueue)
                  /\ UNCHANGED log
             ELSE /\ log' = Append(log, SetenvWarning(v))
                  /\ envQueue' = <<>>
                  /\ UNCHANGED remoteEnv
    /\ UNCHANGED <<inVars, cmdVars, tunVars, termVars, session, ptyRequested, startedCmd,
                   started, ctlVars, relayVars>>

\* one iteration of env's loop
EnvSet ==
    /\ pc = "env"
    /\ envQueue # <<>>
    /\ LET v == Head(envQueue)
       IN  \E ok \in BOOLEAN :
             IF ok
             THEN /\ remoteEnv' = Append(remoteEnv, EnvPair(v))
                  /\ UNCHANGED log
             ELSE /\ log' = Append(log, SetenvWarning(v))
                  /\ UNCHANGED remoteEnv
    /\ envQueue' = Tail(envQueue)
    /\ UNCHANGED <<inVars, cmdVars, tunVars, termVars, session, ptyRequested, startedCmd,
                   started, ctlVars, relayVars>>

\* session.RequestPty reached while env's loop still has entries to set
RequestPtyMutEarly ==
    /\ pc = "env"
    /\ \E ok \in BOOLEAN :
         IF ok
         THEN /\ ptyRequested' = TRUE
              /\ Goto("stdinPipe")
              /\ UNCHANGED log
         ELSE /\ Fatal(LogEntry("request for pseudo terminal failed", <<>>))
              /\ UNCHANGED ptyRequested
    /\ UNCHANGED <<inVars, cmdVars, tunVars, termVars, session, envQueue, remoteEnv,
                   startedCmd, started, relayVars>>

\* session.RequestPty("ansi", 40, 80, modes)
RequestPty ==
    /\ pc = "env"
    /\ envQueue = <<>>
    /\ \E ok \in BOOLEAN :
         IF ok
         THEN /\ ptyRequested' = TRUE
              /\ Goto("stdinPipe")
              /\ UNCHANGED log
         ELSE /\ Fatal(LogEntry("request for pseudo terminal failed", <<>>))
              /\ UNCHANGED ptyRequested
    /\ UNCHANGED <<inVars, cmdVars, tunVars, termVars, session, envQueue, remoteEnv,
                   startedCmd, started, relayVars>>

\* i, err := session.StdinPipe()
StdinPipe ==
    /\ pc = "stdinPipe"
    /\ \E ok \in BOOLEAN :
         IF ok THEN Goto("stdoutPipe") ELSE Return(OtherError("StdinPipe", <<>>))
    /\ UNCHANGED <<inVars, cmdVars, tunVars, termVars, sesVars, log, relayVars>>

\* o, err := session.StdoutPipe()
StdoutPipe ==
    /\ pc = "stdoutPipe"
    /\ \E ok \in BOOLEAN :
         IF ok THEN Goto("stderrPipe") ELSE Return(OtherError("StdoutPipe", <<>>))
    /\ UNCHANGED <<inVars, cmdVars, tunVars, termVars, sesVars, log, relayVars>>

\* e, err := session.StderrPipe()
StderrPipe ==
    /\ pc = "stderrPipe"
    /\ \E ok \in BOOLEAN :
         IF ok THEN Goto("start") ELSE Return(OtherError("StderrPipe", <<>>))
    /\ UNCHANGED <<inVars, cmdVars, tunVars, termVars, sesVars, log, relayVars>>

\* session.Start held back until the tunnel-serving task has admitted a connection
StartMutAfterAdmission ==
    /\ pc = "start"
    /\ srvPc \in {"idle", "serving"}
    /\ log' = V(LogEntry("Start remote with command", <<Quote(cmd)>>))
    /\ startedCmd' = cmd
    /\ \E ok \in BOOLEAN :
         IF ok
         THEN /\ started' = TRUE
              /\ Goto("go")
         ELSE /\ Return(OtherError("Failed to run", cmd))
              /\ UNCHANGED started
    /\ UNCHANGED <<inVars, cmdVars, tunVars, termVars, session, envQueue, remoteEnv,
                   ptyRequested, relayVars>>

\* v("Start remote with command %q", cmd); session.Start(cmd)
Start ==
    /\ pc = "start"
    /\ log' = V(LogEntry("Start remote with command", <<Quote(cmd)>>))
    /\ startedCmd' = cmd
    /\ \E ok \in BOOLEAN :
         IF ok
         THEN /\ started' = TRUE
              /\ Goto("go")
         ELSE /\ Return(OtherError("Failed to run", cmd))
              /\ UNCHANGED started
    /\ UNCHANGED <<inVars, cmdVars, tunVars, termVars, session, envQueue, remoteEnv,
                   ptyRequested, relayVars>>

\* what the user types during a session
SessionInputs == {<<"a", NL, TildeByte, DotByte>>}

\* go stdin(session, i, os.Stdin); go io.Copy(...); go io.Copy(...)
GoRelays ==
    /\ pc = "go"
    /\ relayPc' = "read"
    /\ stdoutPc' = "copy"
    /\ stderrPc' = "copy"
    /\ input' \in SessionInputs
    /\ Goto("wait")
    /\ UNCHANGED <<inVars, cmdVars, tunVars, termVars, sesVars, log>>
    /\ UNCHANGED <<pos, b, out, newLine, tilde, stop, sessClosed, wrote>>

\* what session.Wait() may return
WaitResults ==
    {ErrNil, OtherError("wait", <<>>)} \cup {ExitError(n) : n \in 1..MaxStatus}

\* session.Wait() returned only after the three relays have returned
WaitMutJoinsRelays ==
    /\ pc = "wait"
    /\ relayPc = "done"
    /\ stdoutPc = "done"
    /\ stderrPc = "done"
    /\ \E res \in WaitResults : Return(res)
    /\ UNCHANGED <<inVars, cmdVars, tunVars, termVars, sesVars, log, relayVars>>

\* return session.Wait()
Wait ==
    /\ pc = "wait"
    /\ \E res \in WaitResults : Return(res)
    /\ UNCHANGED <<inVars, cmdVars, tunVars, termVars, sesVars, log, relayVars>>

\* shell returns: its deferred calls run, the last deferred first
Unwind ==
    /\ pc = "unwind"
    /\ defers # <<>>
    /\ defers' = SubSeq(defers, 1, Len(defers) - 1)
    /\ IF defers[Len(defers)] = "session.Close"
       THEN /\ session' = "closed"
            /\ UNCHANGED termVars
       ELSE \* t.Set(r); its error is dropped
            /\ restores' = restores + 1
            /\ \E ok \in BOOLEAN :
                 IF ok
                 THEN termMode' = shellR /\ UNCHANGED restoreFailed
                 ELSE restoreFailed' = TRUE /\ UNCHANGED termMode
            /\ UNCHANGED <<mainT, shellR, rawEntered, session>>
    /\ UNCHANGED <<inVars, cmdVars, tunVars, envQueue, remoteEnv, ptyRequested, startedCmd,
                   started, pc, err, exitDeferred, exitStatus, log, relayVars>>

----------------------------------------------------------------------------
\* main, after runClient

\* every failure exits with status 1
ExitStatusAlwaysOne(e) == 1

\* e := 1; if x, ok := err.(*ssh.ExitError); ok { e = x.ExitStatus() }
ExitStatusOf(e) == IF e.kind = "ExitError" THEN e.status ELSE 1

\* if err := runClient(host, a); err != nil { ... defer os.Exit(e) }
MainAfterRunClient ==
    /\ pc = "unwind"
    /\ defers = <<>>
    /\ IF err.kind # "nil"
       THEN /\ log' = Append(log, LogEntry("SSH error", <<err.text>>))
            /\ exitDeferred' = ExitStatusOf(err)
       ELSE UNCHANGED <<log, exitDeferred>>
    /\ pc' = "main_restore"
    /\ UNCHANGED <<inVars, cmdVars, tunVars, termVars, sesVars, defers, err, exitStatus,
                   relayVars>>

\* if err := termios.SetTermios(0, t); err != nil { log.Print(err) }
MainRestore ==
    /\ pc = "main_restore"
    /\ restores' = restores + 1
    /\ \E ok \in BOOLEAN :
         IF ok
         THEN /\ termMode' = mainT
              /\ UNCHANGED <<restoreFailed, log>>
         ELSE /\ restoreFailed' = TRUE
              /\ log' = Append(log, LogEntry("SetTermios", <<>>))
              /\ UNCHANGED termMode
    /\ Goto("main_return")
    /\ UNCHANGED <<inVars, cmdVars, tunVars, mainT, shellR, rawEntered, sesVars, relayVars>>

\* main returns: the deferred os.Exit(e) runs, or the process exits with 0
MainReturn ==
    /\ pc = "main_return"
    /\ exitStatus' = IF exitDeferred >= 0 THEN exitDeferred ELSE 0
    /\ pc' = "exited"
    /\ UNCHANGED <<inVars, cmdVars, tunVars, termVars, sesVars, defers, err, exitDeferred,
                   log, relayVars>>

----------------------------------------------------------------------------
\* The input relay

\* the writes of ws that reach w when write number fail (0: none) returns an error
Written(ws, fail) == IF fail = 0 THEN ws ELSE SubSeq(ws, 1, fail - 1)

RelayNext(fail) == IF fail = 0 THEN "read" ELSE "done"

RelayStop(fail) == IF fail = 0 THEN "none" ELSE "writeerr"

\* a step of the main goroutine: main, runClient, shell and its deferred calls
MainStep ==
    \/ MainArgs
    \/ MainGetTermios
    \/ Config
    \/ Dial
    \/ Namespace
    \/ ParseDuration
    \/ Listen
    \/ Port
    \/ Nonce
    \/ Srv
    \/ QuoteCmd
    \/ TermiosNew
    \/ Raw
    \/ LookPath
    \/ NewSession
    \/ EnvSet
    \/ RequestPty
    \/ StdinPipe
    \/ StdoutPipe
    \/ StderrPipe
    \/ Start
    \/ GoRelays
    \/ Wait
    \/ Unwind
    \/ MainAfterRunClient
    \/ MainRestore
    \/ MainReturn

\* a goroutine runs only while the process does
RelayRuns == pc # "exited"

\* r.Read(b[:]) delivers the next byte
StdinRead ==
    /\ RelayRuns
    /\ relayPc = "read"
    /\ UNCHANGED lifeVars
    /\ pos < Len(input)
    /\ b' = input[pos + 1]
    /\ pos' = pos + 1
    /\ relayPc' = "switch"
    /\ UNCHANGED <<input, out, newLine, tilde, stop, sessClosed, wrote, stdoutPc, stderrPc>>

\* r.Read(b[:]) returns an error (end of input, or the stream failed): break
StdinReadErr ==
    /\ RelayRuns
    /\ relayPc = "read"
    /\ UNCHANGED lifeVars
    /\ relayPc' = "done"
    /\ stop' = IF pos = Len(input) THEN "eof" ELSE "readerr"
    /\ UNCHANGED <<input, pos, b, out, newLine, tilde, sessClosed, wrote, stdoutPc, stderrPc>>

\* default:
StdinDefault ==
    /\ RelayRuns
    /\ relayPc = "switch"
    /\ UNCHANGED lifeVars
    /\ b \notin {NL, CR, TildeByte, DotByte}
    /\ LET ws == IF tilde THEN <<TildeByte, b>> ELSE <<b>>
       IN  \E fail \in 0..Len(ws) :
             /\ out' = out \o Written(ws, fail)
             /\ wrote' = Append(wrote, Len(Written(ws, fail)))
             \* tilde = false is reached only when the write of t succeeded
             /\ tilde' = (tilde /\ fail = 1)
             /\ relayPc' = RelayNext(fail)
             /\ stop' = RelayStop(fail)
    /\ newLine' = FALSE
    /\ UNCHANGED <<input, pos, b, sessClosed, stdoutPc, stderrPc>>

\* case '\n', '\r':
StdinNewline ==
    /\ RelayRuns
    /\ relayPc = "switch"
    /\ UNCHANGED lifeVars
    /\ b \in {NL, CR}
    /\ newLine' = TRUE
    /\ \E fail \in 0..1 :
         /\ out' = out \o Written(<<b>>, fail)
         /\ wrote' = Append(wrote, Len(Written(<<b>>, fail)))
         /\ relayPc' = RelayNext(fail)
         /\ stop' = RelayStop(fail)
    /\ UNCHANGED <<input, pos, b, tilde, sessClosed, stdoutPc, stderrPc>>

\* case '~':
StdinTilde ==
    /\ RelayRuns
    /\ relayPc = "switch"
    /\ UNCHANGED lifeVars
    /\ b = TildeByte
    /\ IF newLine
       THEN /\ newLine' = FALSE
            /\ tilde' = TRUE
            /\ wrote' = Append(wrote, 0)
            /\ relayPc' = "read"
            /\ UNCHANGED <<out, stop>>
       ELSE /\ \E fail \in 0..1 :
                 /\ out' = out \o Written(<<TildeByte>>, fail)
                 /\ wrote' = Append(wrote, Len(Written(<<TildeByte>>, fail)))
                 /\ relayPc' = RelayNext(fail)
                 /\ stop' = RelayStop(fail)
            /\ UNCHANGED <<newLine, tilde>>
    /\ UNCHANGED <<input, pos, b, sessClosed, stdoutPc, stderrPc>>

\* case '.' with the tilde test left out: the byte is always forwarded
StdinDotMutForward ==
    /\ RelayRuns
    /\ relayPc = "switch"
    /\ UNCHANGED lifeVars
    /\ b = DotByte
    /\ \E fail \in 0..1 :
         /\ out' = out \o Written(<<b>>, fail)
         /\ wrote' = Append(wrote, Len(Written(<<b>>, fail)))
         /\ relayPc' = RelayNext(fail)
         /\ stop' = RelayStop(fail)
    /\ UNCHANGED <<input, pos, b, newLine, tilde, sessClosed, stdoutPc, stderrPc>>

\* case '.': with tilde set, s.Close() closes the session s and the relay returns
StdinDot ==
    /\ RelayRuns
    /\ relayPc = "switch"
    /\ UNCHANGED <<inVars, cmdVars, tunVars, termVars, envQueue, remoteEnv, ptyRequested,
                   startedCmd, started, ctlVars, log>>
    /\ b = DotByte
    /\ IF tilde
       THEN /\ sessClosed' = TRUE
            /\ session' = "closed"
            /\ relayPc' = "done"
            /\ stop' = "escape"
            /\ wrote' = Append(wrote, 0)
            /\ UNCHANGED out
       ELSE /\ \E fail \in 0..1 :
                 /\ out' = out \o Written(<<b>>, fail)
                 /\ wrote' = Append(wrote, Len(Written(<<b>>, fail)))
                 /\ relayPc' = RelayNext(fail)
                 /\ stop' = RelayStop(fail)
            /\ UNCHANGED <<sessClosed, session>>
    /\ UNCHANGED <<input, pos, b, newLine, tilde, stdoutPc, stderrPc>>

----------------------------------------------------------------------------
\* The output relays: go io.Copy(os.Stdout, o); go io.Copy(os.Stderr, e)

\* the remote streams have ended: the session's channel is closed, or the
\* remote command has completed
StreamEnded == session = "closed" \/ pc # "wait"

\* io.Copy(os.Stdout, o) returns when o has ended
StdoutCopyEnd ==
    /\ RelayRuns
    /\ stdoutPc = "copy"
    /\ StreamEnded
    /\ stdoutPc' = "done"
    /\ UNCHANGED lifeVars
    /\ UNCHANGED <<input, pos, b, out, newLine, tilde, relayPc, stop, sessClosed, wrote,
                   stderrPc>>

\* io.Copy(os.Stderr, e) returns when e has ended
StderrCopyEnd ==
    /\ RelayRuns
    /\ stderrPc = "copy"
    /\ StreamEnded
    /\ stderrPc' = "done"
    /\ UNCHANGED lifeVars
    /\ UNCHANGED <<input, pos, b, out, newLine, tilde, relayPc, stop, sessClosed, wrote,
                   stdoutPc>>

----------------------------------------------------------------------------
\* The tunnel-serving task: go srv(l, *root, nonce, deadline)

\* the gate admits a connection that presents the Secret before the deadline;
\* the Secret reaches the remote side with the started command
SrvAdmit ==
    /\ RelayRuns
    /\ srvPc = "accept"
    /\ started
    /\ srvPc' = "serving"
    /\ UNCHANGED <<inVars, cmdVars, wantNameSpace, listenRequested, listenerAddr, port9p,
                   randB, nonce, srvStarted, termVars, sesVars, ctlVars, log, relayVars>>

\* the deadline elapses with no admitted connection: the gate abandons the
\* rendezvous
SrvDeadline ==
    /\ RelayRuns
    /\ srvPc = "accept"
    /\ srvPc' = "abandoned"
    /\ UNCHANGED <<inVars, cmdVars, wantNameSpace, listenRequested, listenerAddr, port9p,
                   randB, nonce, srvStarted, termVars, sesVars, ctlVars, log, relayVars>>

----------------------------------------------------------------------------
\* The session: main runs from its first statement; no relay is started yet

RelayIdle ==
    /\ input = <<>>
    /\ pos = 0
    /\ b = NUL
    /\ out = <<>>
    /\ newLine = FALSE
    /\ tilde = FALSE
    /\ relayPc = "idle"
    /\ stop = "none"
    /\ sessClosed = FALSE
    /\ wrote = <<>>
    /\ stdoutPc = "idle"
    /\ stderrPc = "idle"

Init ==
    /\ \E inv \in Invocations :
         /\ args = inv.args
         /\ debug = inv.debug
         /\ bin = inv.bin
    /\ environ \in Environs
    /\ a = <<>>
    /\ cmd = <<>>
    /\ envs = <<>>
    /\ wantNameSpace = TRUE
    /\ listenRequested = FALSE
    /\ listenerAddr = <<>>
    /\ port9p = <<>>
    /\ randB = <<>>
    /\ nonce = <<>>
    /\ srvStarted = FALSE
    /\ srvPc = "idle"
    /\ termMode = "orig"
    /\ mainT = "none"
    /\ shellR = "none"
    /\ rawEntered = FALSE
    /\ restoreFailed = FALSE
    /\ restores = 0
    /\ session = "none"
    /\ envQueue = <<>>
    /\ remoteEnv = <<>>
    /\ ptyRequested = FALSE
    /\ startedCmd = <<>>
    /\ started = FALSE
    /\ pc = "main_args"
    /\ defers = <<>>
    /\ err = ErrNil
    /\ exitDeferred = -1
    /\ exitStatus = -1
    /\ log = <<>>
    /\ RelayIdle

Next ==
    \/ MainArgs
    \/ MainGetTermios
    \/ Config
    \/ Dial
    \/ Namespace
    \/ ParseDuration
    \/ Listen
    \/ Port
    \/ Nonce
    \/ Srv
    \/ QuoteCmd
    \/ TermiosNew
    \/ Raw
    \/ LookPath
    \/ NewSession
    \/ EnvSet
    \/ RequestPty
    \/ StdinPipe
    \/ StdoutPipe
    \/ StderrPipe
    \/ Start
    \/ GoRelays
    \/ Wait
    \/ Unwind
    \/ MainAfterRunClient
    \/ MainRestore
    \/ MainReturn
    \/ StdinRead
    \/ StdinReadErr
    \/ StdinDefault
    \/ StdinNewline
    \/ StdinTilde
    \/ StdinDot
    \/ StdoutCopyEnd
    \/ StderrCopyEnd
    \/ SrvAdmit
    \/ SrvDeadline

Spec == Init /\ [][Next]_vars

----------------------------------------------------------------------------
\* The input relay alone, on every input up to MaxInput bytes, the main
\* goroutine staying in session.Wait()

\* the relay's locals at entry to stdin(), for a given input
RelayInit(in) ==
    /\ input = in
    /\ pos = 0
    /\ b = NUL
    /\ out = <<>>
    /\ newLine = FALSE
    /\ tilde = FALSE
    /\ relayPc = "read"
    /\ stop = "none"
    /\ sessClosed = FALSE
    /\ wrote = <<>>
    /\ stdoutPc = "copy"
    /\ stderrPc = "copy"

\* a session with no namespace, its remote command started, main in session.Wait()
LifeAtWait ==
    /\ args = <<S_host>>
    /\ environ = <<S_SHELL \o <<"=">> \o S_binbash, S_CPU_NAMESPACE \o <<"=">>>>
    /\ debug = FALSE
    /\ bin = S_cpud
    /\ a = S_binbash
    /\ cmd = WithCommand(BaseCmd(S_cpud), S_binbash)
    /\ envs = <<>>
    /\ wantNameSpace = FALSE
    /\ listenRequested = FALSE
    /\ listenerAddr = <<>>
    /\ port9p = <<>>
    /\ randB = <<>>
    /\ nonce = <<>>
    /\ srvStarted = FALSE
    /\ srvPc = "idle"
    /\ termMode = "raw"
    /\ mainT = "orig"
    /\ shellR = "orig"
    /\ rawEntered = TRUE
    /\ restoreFailed = FALSE
    /\ restores = 0
    /\ session = "open"
    /\ envQueue = <<>>
    /\ remoteEnv = <<<<S_SHELL, S_binbash>>, <<S_CPU_NAMESPACE, <<>>>>>>
    /\ ptyRequested = TRUE
    /\ startedCmd = WithCommand(BaseCmd(S_cpud), S_binbash)
    /\ started = TRUE
    /\ pc = "wait"
    /\ defers = <<"t.Set", "session.Close">>
    /\ err = ErrNil
    /\ exitDeferred = -1
    /\ exitStatus = -1
    /\ log = <<>>

InitStdin ==
    /\ LifeAtWait
    /\ \E in \in SeqsUpTo(RelayBytes, MaxInput) : RelayInit(in)

NextStdin ==
    \/ StdinRead
    \/ StdinReadErr
    \/ StdinDefault
    \/ StdinNewline
    \/ StdinTilde
    \/ StdinDot

SpecStdin == InitStdin /\ [][NextStdin]_vars

----------------------------------------------------------------------------
\* Properties of the input relay (checked under SpecStdin)

\* input[i] has been read and its switch case has run
Handled(i) == i < pos \/ (i = pos /\ relayPc # "switch")

\* the bytes of input handled so far
HandledInput == SubSeq(input, 1, IF relayPc = "switch" THEN pos - 1 ELSE pos)

\* input[i], input[i+1], input[i+2] are a newline or carriage return, `~`, `.`
EscapeAt(i) ==
    /\ i >= 1 /\ i + 2 <= Len(input)
    /\ IsNewline(input[i])
    /\ input[i + 1] = TildeByte
    /\ input[i + 2] = DotByte

\* C3: once a newline or carriage return, then `~`, then `.` have been read,
\* the relay has called Close and returned; neither the `~` nor the `.` was
\* written to remote stdin, and nothing after the `.` is read or forwarded
\* (input "a\n~.b" forwards exactly `a`, newline).
C3_EscapeClosesAndStops ==
    /\ \A i \in 1..Len(input) :
         (EscapeAt(i) /\ Handled(i + 2)) =>
             /\ relayPc = "done"
             /\ stop = "escape"
             /\ sessClosed
             /\ pos = i + 2
             /\ Len(wrote) = i + 2
             /\ wrote[i + 1] = 0
             /\ wrote[i + 2] = 0
             /\ out # <<>>
             /\ out[Len(out)] = input[i]
    /\ (input = <<"a", NL, TildeByte, DotByte, "b">> /\ relayPc = "done" /\ stop # "writeerr"
            /\ stop # "readerr")
         => out = <<"a", NL>>

\* C3 witness: the relay has handled "a\n~." of the input "a\n~.b"
C3_Witness ==
    /\ input = <<"a", NL, TildeByte, DotByte, "b">>
    /\ pos = 4
    /\ relayPc = "done"
    /\ stop = "escape"
    /\ out = <<"a", NL>>

\* the handled input ends in a newline followed by `~`
EndsInArmedTilde(s) ==
    /\ Len(s) >= 2
    /\ s[Len(s)] = TildeByte
    /\ IsNewline(s[Len(s) - 1])

\* C4: while no read or write has failed and the escape has not ended the
\* relay, the bytes written to remote stdin are exactly the bytes handled so
\* far, in order, except that a `~` read directly after a newline may be
\* withheld while it is the last byte read.
C4_ForwardsInputInOrder ==
    (stop \in {"none", "eof"} /\ relayPc # "switch") =>
        \/ out = HandledInput
        \/ /\ EndsInArmedTilde(HandledInput)
           /\ out = SubSeq(HandledInput, 1, Len(HandledInput) - 1)

\* C5: the relay ends the session through the escape only when the three
\* most recently read bytes are a newline or carriage return, `~`, `.`.
C5_EscapeOnlyAfterNewlineTildeDot ==
    (stop = "escape") => EscapeAt(pos - 2)

\* C6: a `~` is withheld (arms the escape, nothing written) only when the
\* byte read immediately before it was a newline or carriage return.
C6_TildeWithheldOnlyAfterNewline ==
    \A i \in 1..Len(wrote) :
        (/\ input[i] = TildeByte
         /\ wrote[i] = 0
         /\ ~(stop = "writeerr" /\ i = pos))
            => (i > 1 /\ IsNewline(input[i - 1]))

----------------------------------------------------------------------------
\* Properties of the session (checked under Spec)

\* the messages of log.Fatal and log.Fatalf
FatalMessages ==
    {"Usage", "Getting Termios", "Getting nonce", "request for pseudo terminal failed"}

\* the process was ended by log.Fatal: nothing is logged after that
EndedByFatal == log # <<>> /\ log[Len(log)].what \in FatalMessages

\* C1: when the process has exited after shell() put the terminal into raw
\* mode, and no call restoring the mode returned an error, the terminal is
\* back in its original mode.
C1_TerminalRestoredOnExit ==
    (pc = "exited" /\ rawEntered /\ ~restoreFailed) => termMode = "orig"

\* C2: the exit status is 0 when runClient returned no error, the remote
\* command's exit status when runClient returned a remote-exit error, and 1
\* for every other failure; a failed final restore of the terminal does not
\* change it.
C2_ExitStatusMapping ==
    (pc = "exited") =>
        exitStatus =
            CASE EndedByFatal -> 1
              [] ~EndedByFatal /\ err.kind = "nil" -> 0
              [] ~EndedByFatal /\ err.kind = "ExitError" -> err.status
              [] OTHER -> 1

\* C2 witness: the remote command exited with status 2, the final restore of
\* the terminal failed, and the process exited with status 2
C2_Witness ==
    /\ pc = "exited"
    /\ err = ExitError(2)
    /\ log # <<>>
    /\ log[Len(log)].what = "SetTermios"
    /\ exitStatus = 2

\* CPU_NAMESPACE is present in the environment with an empty value
EmptyNamespaceInEnv ==
    \E i \in DOMAIN environ : environ[i] = S_CPU_NAMESPACE \o <<"=">>

\* C7: with CPU_NAMESPACE present and empty no listener is ever requested,
\* the tunnel-serving task is never started and no command line carries
\* -port9p; otherwise a command line handed to the remote side was built
\* after the listener was requested and the task started, and carries the
\* -port9p flag.
C7_NamespaceSwitch ==
    IF EmptyNamespaceInEnv
    THEN /\ ~listenRequested
         /\ ~srvStarted
         /\ ~Contains(cmd, S_port9p)
         /\ ~Contains(startedCmd, S_port9p)
    ELSE (startedCmd # <<>>) =>
            /\ listenRequested
            /\ srvStarted
            /\ Contains(startedCmd, S_port9p \o port9p)

\* C7 witness: CPU_NAMESPACE is empty and the remote command is running
C7_Witness ==
    /\ EmptyNamespaceInEnv
    /\ started
    /\ pc = "wait"

HasColon(s) == \E i \in DOMAIN s : s[i] = ":"

Digits == {"0", "1", "2", "3", "4", "5", "6", "7", "8", "9"}

\* the part of s after its last colon
AfterLastColon(s) ==
    LET i == CHOOSE i \in DOMAIN s : s[i] = ":" /\ \A j \in (i + 1)..Len(s) : s[j] # ":"
    IN  SubSeq(s, i + 1, Len(s))

\* C8: once the granted listener's address has been examined, a host:port
\* address has given its non-empty numeric port, and an address with no colon
\* has made runClient return an error without launching the remote command.
C8_PortExtractedOrFails ==
    (listenerAddr # <<>> /\ pc # "port") =>
        IF HasColon(listenerAddr)
        THEN /\ port9p = AfterLastColon(listenerAddr)
             /\ port9p # <<>>
             /\ \A i \in DOMAIN port9p : port9p[i] \in Digits
        ELSE /\ err.kind = "error"
             /\ startedCmd = <<>>
             /\ ~started

HexChars == {HexDigits[i] : i \in DOMAIN HexDigits}

\* the value of the hexadecimal digit c
HexVal(c) == (CHOOSE i \in DOMAIN HexDigits : HexDigits[i] = c) - 1

\* C9: a generated Secret has exactly 32 characters, each in [0-9a-f], two
\* per random byte in order (every byte value 0..255 is rendered as the two
\* lowercase digits of its value); when the random source fails no Secret is
\* used: the process ends with the error, no tunnel task, no Secret variable.
C9_NonceIsHex ==
    /\ (nonce # <<>>) =>
          /\ Len(nonce) = 32
          /\ \A i \in 1..32 : nonce[i] \in HexChars
          /\ Len(randB) = 16
          /\ \A k \in 1..16 :
                nonce[2 * k - 1] \in HexChars /\ nonce[2 * k] \in HexChars
                    => 16 * HexVal(nonce[2 * k - 1]) + HexVal(nonce[2 * k]) = randB[k]
    /\ (pc = "nonce") =>
          \A x \in 0..255 :
              /\ Len(HexByte(x)) = 2
              /\ HexByte(x)[1] \in HexChars /\ HexByte(x)[2] \in HexChars
              /\ 16 * HexVal(HexByte(x)[1]) + HexVal(HexByte(x)[2]) = x
    /\ (log # <<>> /\ log[Len(log)].what = "Getting nonce") =>
          /\ nonce = <<>>
          /\ ~srvStarted
          /\ envs = <<>>
          /\ pc = "exited"
          /\ exitStatus = 1

\* C9 witness: a Secret made from random bytes that begin 0x09, 0x1a
C9_Witness ==
    /\ nonce # <<>>
    /\ randB[1] = 9
    /\ SubSeq(nonce, 1, 4) = <<"0", "9", "1", "a">>
    /\ srvStarted

\* C10: no log or debug entry contains the Secret's value.
C10_SecretNeverLogged ==
    (nonce # <<>>) =>
        \A i \in DOMAIN log :
            \A j \in DOMAIN log[i].args : ~Contains(log[i].args[j], nonce)

\* C11: the command string handed to the remote side is the binary path,
\* ` -remote -bin ` and the binary path again, then ` -port9p <N>` in
\* namespace mode, then a space and the user's command string character for
\* character, with nothing added around it (no command and SHELL=/bin/bash:
\* `<bin> -remote -bin <bin> -port9p <N> /bin/bash`).
C11_LaunchedCommandVerbatim ==
    (startedCmd # <<>>) =>
        \E bn \in BinFlags \cup {S_cpuPath} :
            startedCmd =
                (IF wantNameSpace THEN WithPort(BaseCmd(bn), port9p) ELSE BaseCmd(bn))
                    \o <<" ">> \o a

\* the request for the reverse listener failed
ListenFailed == err.what = "First cl.Listen"

\* C12: when the request for the reverse listener has failed, no Secret has
\* been generated, the tunnel-serving task has not been started, no Secret
\* variable is queued, no terminal or session step of shell() has run, the
\* remote command has not been launched, and the process's exit status is 1.
C12_ListenFailureAborts ==
    ListenFailed =>
        /\ listenRequested
        /\ listenerAddr = <<>>
        /\ nonce = <<>>
        /\ randB = <<>>
        /\ ~srvStarted
        /\ srvPc = "idle"
        /\ envs = <<>>
        /\ ~rawEntered
        /\ session = "none"
        /\ startedCmd = <<>>
        /\ ~started
        /\ pc \in {"unwind", "main_restore", "main_return", "exited"}
        /\ (pc = "exited" => exitStatus = 1)

\* C12 witness: the listener request failed and the process has exited with 1
C12_Witness ==
    /\ ListenFailed
    /\ listenRequested
    /\ pc = "exited"
    /\ exitStatus = 1

\* what main makes of runClient's result
StatusFor(e) == IF e.kind = "nil" THEN 0 ELSE ExitStatusOf(e)

\* C13: once the rendezvous deadline has passed with no admitted connection,
\* the main goroutine is never held up by the tunnel-serving task (its next
\* step can always be taken); if the remote command was started its three
\* relays were started too, and the process ends with what session.Wait
\* returned: exit status 0, the remote command's status, or 1 for a failed
\* wait, never an error of the tunnel-serving task.
C13_DeadlineDoesNotEndSession ==
    (srvPc = "abandoned") =>
        /\ (pc # "exited") => ENABLED MainStep
        /\ (started /\ pc # "go") =>
              /\ relayPc # "idle"
              /\ stdoutPc # "idle"
              /\ stderrPc # "idle"
        /\ (started /\ pc = "exited") =>
              /\ err \in WaitResults
              /\ exitStatus = StatusFor(err)

\* C13 witness: the deadline passed with no connection, input was relayed to
\* the remote command, and the process exited with the command's status 2
C13_Witness ==
    /\ srvPc = "abandoned"
    /\ started
    /\ out # <<>>
    /\ pc = "exited"
    /\ err = ExitError(2)
    /\ exitStatus = 2

\* Setenv has been called for the entry v: it was accepted, or its failure
\* was logged
SetenvAttempted(v) ==
    \/ \E i \in DOMAIN remoteEnv : remoteEnv[i] = EnvPair(v)
    \/ \E i \in DOMAIN log : log[i] = SetenvWarning(v)

\* at this point (a) in namespace mode the port is the last colon-separated
\* part of the listener's address and cmd carries ` -port9p ` followed by it,
\* and (b) Setenv has been attempted for every entry of the local environment
\* and, in namespace mode, for the entry carrying the Secret
PortAndEnvDone ==
    /\ wantNameSpace =>
          /\ listenerAddr # <<>>
          /\ port9p = LastOf(Split(listenerAddr, ":"))
          /\ Contains(cmd, S_port9p \o port9p \o <<" ">>)
          /\ nonce # <<>>
          /\ envs = <<NonceEnv(nonce)>>
          /\ SetenvAttempted(NonceEnv(nonce))
    /\ envQueue = <<>>
    /\ \A i \in DOMAIN environ : SetenvAttempted(environ[i])
    /\ Len(remoteEnv) + Cardinality({i \in DOMAIN log : log[i].what = "Warning: s.Setenv"})
          = Len(environ) + Len(envs)

\* C14: every step that calls session.Start is taken when the forwarded port
\* has been extracted and embedded in the command line (namespace mode) and
\* Setenv has been attempted for every propagated variable, the Secret's
\* included; the string it starts is that command line.
C14_StartAfterPortAndEnv ==
    [][(startedCmd = <<>> /\ startedCmd' # <<>>) => (PortAndEnvDone /\ startedCmd' = cmd)]_vars

\* C14 witness: a namespace session whose command is running, Setenv of the
\* Secret's entry having failed
C14_Witness ==
    /\ wantNameSpace
    /\ started
    /\ pc = "wait"
    /\ \E i \in DOMAIN log : log[i] = SetenvWarning(NonceEnv(nonce))

\* C15: when the process has exited after the terminal was put into raw
\* mode, the terminal has been restored exactly once, however the session
\* ended.
C15_RestoredExactlyOnce ==
    (pc = "exited" /\ rawEntered) => restores = 1

\* C16: once the remote command has been started, whatever the three relays
\* are doing, session.Wait() can return, and from its return on shell() and
\* main always have a next step up to the process's exit: nothing waits for
\* a relay to finish.
C16_WaitNotHeldByRelays ==
    /\ (pc = "wait") => ENABLED Wait
    /\ (started /\ pc = "unwind") => ENABLED (Unwind \/ MainAfterRunClient)
    /\ (started /\ pc \in {"main_restore", "main_return"}) => ENABLED MainStep

\* C16 witness: the process has exited after the remote command completed,
\* the input relay still in a read and both output relays still copying
C16_Witness ==
    /\ started
    /\ pc = "exited"
    /\ err \in WaitResults
    /\ relayPc = "read"
    /\ stdoutPc = "copy"
    /\ stderrPc = "copy"

\* C17: after the session-ending escape, while the remote command has not
\* completed, the input relay has stopped, the remote exec session is still
\* open, and the stdout and stderr relays are still copying remote output.
C17_EscapeLeavesSessionOpen ==
    (stop = "escape" /\ pc = "wait") =>
        /\ relayPc = "done"
        /\ session = "open"
        /\ stdoutPc = "copy"
        /\ stderrPc = "copy"

\* the entries env() ranges over: append(os.Environ(), envs...)
EnvEntries == environ \o envs

\* the number of Setenv calls made so far: those accepted and those that
\* failed with a warning
SetenvCalls ==
    Len(remoteEnv) + Cardinality({i \in DOMAIN log : log[i].what = "Warning: s.Setenv"})

\* C18: env() calls Setenv for the entries of the local environment and then
\* the extra entries, one at a time in that order; after a failure (logged as
\* a warning) the loop goes on with the entries that remain; the pseudo
\* terminal is requested when every entry has been attempted, and a session
\* that ends before its command is started ends because of a later step
\* (pseudo-terminal request or pipe creation), never because of Setenv.
C18_EnvBestEffort ==
    /\ (pc = "env") =>
          /\ SetenvCalls <= Len(EnvEntries)
          /\ envQueue = SubSeq(EnvEntries, SetenvCalls + 1, Len(EnvEntries))
          /\ \A i \in 1..SetenvCalls : SetenvAttempted(EnvEntries[i])
          /\ err.kind = "nil"
          /\ ENABLED (EnvSet \/ RequestPty)
    /\ (pc = "stdinPipe") =>
          /\ ptyRequested
          /\ SetenvCalls = Len(EnvEntries)
    /\ (pc = "unwind" /\ session # "none" /\ startedCmd = <<>>) =>
          /\ SetenvCalls = Len(EnvEntries)
          /\ err.what \in {"StdinPipe", "StdoutPipe", "StderrPipe"}
    /\ (pc = "exited" /\ session = "open") =>
          /\ SetenvCalls = Len(EnvEntries)
          /\ log[Len(log)].what = "request for pseudo terminal failed"

\* C18 witness: Setenv failed for the first of two variables, the second was
\* set, and the remote command is running
C18_Witness ==
    /\ Len(environ) = 2
    /\ \E i \in DOMAIN log : log[i] = SetenvWarning(environ[1])
    /\ remoteEnv = <<EnvPair(environ[2])>>
    /\ ptyRequested
    /\ started
    /\ pc = "wait"

\* C19: the remote binary path is never empty once the listener has been
\* requested or the command line has been begun (an empty option has been
\* resolved by then); the command line given to session.Start begins with the
\* resolved path, ` -remote -bin ` and the resolved path again; and after a
\* failed resolution no command has been started.
C19_BinResolvedBeforeCommand ==
    /\ (listenRequested \/ cmd # <<>>) => bin # <<>>
    /\ (startedCmd # <<>>) =>
          /\ bin # <<>>
          /\ Len(startedCmd) >= Len(BaseCmd(bin))
          /\ SubSeq(startedCmd, 1, Len(BaseCmd(bin))) = BaseCmd(bin)
    /\ (err.what = "LookPath") => (startedCmd = <<>> /\ ~started)

\* one of the three relay tasks has been started
RelayStarted == relayPc # "idle" \/ stdoutPc # "idle" \/ stderrPc # "idle"

\* C20: the terminal is in raw mode when the three relays are about to be
\* started and no relay runs unless raw mode was entered; and while the
\* remote command has been started and session.Wait() has not returned, no
\* restore of the terminal has run and the terminal is still in raw mode.
C20_RawBeforeRelaysRestoreAfterWait ==
    /\ (pc = "go") => (rawEntered /\ termMode = "raw" /\ ~RelayStarted)
    /\ RelayStarted => rawEntered
    /\ (started /\ pc \in {"go", "wait"}) => (restores = 0 /\ termMode = "raw")

\* C20 witness: the remote command was started, session.Wait() has returned,
\* and shell's deferred restore has put the terminal back
C20_Witness ==
    /\ started
    /\ RelayStarted
    /\ pc = "unwind"
    /\ err \in WaitResults
    /\ restores = 1
    /\ termMode = "orig"

====
